---- MODULE Spec2Model ----
(***************************************************************************)
(* Model of archive/augmentos_cloud_library/example_usage.py: main() builds *)
(* an ExampleApp (an AppClient plus four registered callbacks), starts the  *)
(* client's server and idles; the server dispatches incoming events to the  *)
(* registered coroutine handlers, which run interleaved.                    *)
(***************************************************************************)
EXTENDS Naturals, Integers, FiniteSets, Sequences, Bags, TLC

\* ---------------------------------------------------------------- bounds
MaxEvents == 3          \* events the server delivers in one run

VARIABLES
    pc,             \* position of main() (line of example_usage.py about to run)
    client,         \* ExampleApp.client: the AppClient's constructor arguments
    handlers,       \* callbacks registered on the client, per event type
    startCalls,     \* number of client.start() calls made
    serverRunning,  \* the client's server thread is up
    invs,           \* bag of handler invocations (coroutines) with their locals
    cards,          \* bag of send_reference_card calls issued on the client
    stdout          \* bag of lines printed by the handlers

vars == <<pc, client, handlers, startCalls, serverRunning, invs, cards, stdout>>

\* ------------------------------------------------------------- constants
None == "None"
Unset == "unset"
Title == "ExampleTitle"

EventTypes == {"transcript", "location", "camera", "other"}
OtherTypes == {"location", "camera", "other"}
HandlerNames == {"on_transcript", "on_location", "on_camera", "on_other"}

\* the values of data['user_id'] and data['data']['text']
Users == {"user1", "user2"}
Texts == {"text1", "text2"}

\* The keyword arguments of AppClient(...)
ClientConfig ==
    [app_id |-> "com.exampletpa.example",
     app_name |-> "ExampleApp",
     app_description |-> "An example app for AugmentOS",
     server_url |-> "http://localhost:8080",
     subscriptions |-> <<"*">>]

\* self.client before __init__ has assigned it
NoClient ==
    [app_id |-> None, app_name |-> None, app_description |-> None,
     server_url |-> None, subscriptions |-> <<>>]

\* The handler each registration call of __init__ passes for an event type
Expected ==
    [t \in EventTypes |->
        CASE t = "transcript" -> "on_transcript"
          [] t = "location" -> "on_location"
          [] t = "camera" -> "on_camera"
          [] t = "other" -> "on_other"]

\* ------------------------------------------------------------ event data
\* An event payload is a dict; a key may be missing.  The nested dict under
\* 'data' may or may not hold 'text'.
Inner == {[text |-> t] : t \in Texts} \cup {[language |-> "en"]}

Payloads(t) ==
    {[type |-> t]}
    \cup {[type |-> t, user_id |-> u] : u \in Users}
    \cup {[type |-> t, data |-> d] : d \in Inner}
    \cup {[type |-> t, user_id |-> u, data |-> d] : u \in Users, d \in Inner}

\* Payloads offered to the print-only handlers: a bare one and one that a
\* transcript handler would accept
OtherPayloads(t) ==
    {[type |-> t],
     [type |-> t, user_id |-> "user1", data |-> [text |-> "text1"]]}

PayloadsOf(t) == IF t = "transcript" THEN Payloads(t) ELSE OtherPayloads(t)

HasKey(d, k) == k \in DOMAIN d

\* data['data']['text'] evaluates without KeyError
HasText(d) == HasKey(d, "data") /\ HasKey(d["data"], "text")

WellFormed(d) == HasText(d) /\ HasKey(d, "user_id")

\* ------------------------------------------------------------ bag helpers
One(e) == SetToBag({e})

Replace(bag, old, new) == (bag (-) One(old)) (+) One(new)


\* a fresh coroutine for handler h on payload d
NewInv(t, h, d) ==
    [type |-> t, handler |-> h, data |-> d, pc |-> "entry",
     transcript_text |-> Unset, send |-> "none"]

\* ------------------------------------------------------------------ Init
Init ==
    /\ pc = "L38"
    /\ client = NoClient
    /\ handlers = [t \in EventTypes |-> None]
    /\ startCalls = 0
    /\ serverRunning = FALSE
    /\ invs = EmptyBag
    /\ cards = EmptyBag
    /\ stdout = EmptyBag

\* ---------------------------------------------------- ExampleApp.__init__
\* self.client = AppClient(...)
ExampleAppInitClient ==
    /\ pc = "L38"
    /\ client' = ClientConfig
    /\ pc' = "L14"
    /\ UNCHANGED <<handlers, startCalls, serverRunning, invs, cards, stdout>>

\* self.client.on_<t>_received(h) at line `at`, continuing at line `to`
Register(at, to, t, h) ==
    /\ pc = at
    /\ handlers' = [handlers EXCEPT ![t] = h]
    /\ pc' = to
    /\ UNCHANGED <<client, startCalls, serverRunning, invs, cards, stdout>>

RegisterTranscript == Register("L14", "L15", "transcript", "on_transcript")

RegisterLocation == Register("L15", "L16", "location", "on_location")

\* variant: the camera registration passes the location callback
RegisterCameraWrong == Register("L16", "L17", "camera", "on_location")

RegisterCamera == Register("L16", "L17", "camera", "on_camera")

\* variant: line 17 is missing, on_other is never registered
RegisterOtherSkipped ==
    /\ pc = "L17"
    /\ pc' = "L39"
    /\ UNCHANGED <<client, handlers, startCalls, serverRunning, invs, cards, stdout>>

RegisterOther == Register("L17", "L39", "other", "on_other")

\* ------------------------------------------------------ ExampleApp.start
\* AppClient.start() runs the server in a thread of its own and returns.
AppClientStartReturns == TRUE

\* example_app.start() enters self.client.start(): the server comes up
ExampleAppStart ==
    /\ pc = "L39"
    /\ startCalls' = startCalls + 1
    /\ serverRunning' = TRUE
    /\ pc' = "L35"
    /\ UNCHANGED <<client, handlers, invs, cards, stdout>>

\* variant: client.start() serves in the calling thread and never returns
ExampleAppStartBlocks ==
    /\ pc = "L35"
    /\ pc' = "L35"
    /\ UNCHANGED <<client, handlers, startCalls, serverRunning, invs, cards, stdout>>

\* self.client.start() and with it example_app.start() return to main()
ExampleAppStartReturn ==
    /\ pc = "L35"
    /\ AppClientStartReturns
    /\ pc' = "L41"
    /\ UNCHANGED <<client, handlers, startCalls, serverRunning, invs, cards, stdout>>

\* ------------------------------------------------------------------ main
\* while True:
MainLoopTest ==
    /\ pc = "L41"
    /\ pc' = "L42"
    /\ UNCHANGED <<client, handlers, startCalls, serverRunning, invs, cards, stdout>>

\* variant: the loop body runs once and main() returns
MainSleepReturns ==
    /\ pc = "L42"
    /\ pc' = "returned"
    /\ UNCHANGED <<client, handlers, startCalls, serverRunning, invs, cards, stdout>>

\* await asyncio.sleep(3600) completes; back to the loop test
MainSleep ==
    /\ pc = "L42"
    /\ pc' = "L41"
    /\ UNCHANGED <<client, handlers, startCalls, serverRunning, invs, cards, stdout>>

Main ==
    \/ ExampleAppInitClient
    \/ RegisterTranscript
    \/ RegisterLocation
    \/ RegisterCamera
    \/ RegisterOther
    \/ ExampleAppStart
    \/ ExampleAppStartReturn
    \/ MainLoopTest
    \/ MainSleep

\* ------------------------------------------------- AppClient (the server)
\* The running server receives an event of type t and calls the callback
\* registered for t with the payload.
Deliver(t, d) ==
    /\ serverRunning
    /\ handlers[t] # None
    /\ BagCardinality(invs) < MaxEvents
    /\ invs' = invs (+) One(NewInv(t, handlers[t], d))
    /\ UNCHANGED <<pc, client, handlers, startCalls, serverRunning, cards, stdout>>

\* How AppClient.send_reference_card can end: normally or with an error.
SendOutcomes == {"delivered", "failed"}

\* -------------------------------------------------------------- handlers
\* print(f"[ExampleApp <h>] Data received in callback: {data}")
PrintLine(e) == [handler |-> e.handler, data |-> e.data]

\* variant: the payload is kept in a field of the shared ExampleApp object, so
\* the text read is the one of whichever transcript event arrived last
OnTranscriptReadTextShared(e) ==
    /\ BagIn(e, invs)
    /\ e.handler = "on_transcript"
    /\ e.pc = "entry"
    /\ stdout' = stdout (+) One(PrintLine(e))
    /\ \E o \in BagToSet(invs) :
          /\ o.handler = "on_transcript"
          /\ invs' = Replace(invs, e,
                       IF HasText(o.data)
                       THEN [e EXCEPT !.pc = "L22", !.transcript_text = o.data["data"]["text"]]
                       ELSE [e EXCEPT !.pc = "KeyError"])
    /\ UNCHANGED <<pc, client, handlers, startCalls, serverRunning, cards>>

\* on_transcript, lines 20-21: the print, then
\* transcript_text = data['data']['text']
OnTranscriptReadText(e) ==
    /\ BagIn(e, invs)
    /\ e.handler = "on_transcript"
    /\ e.pc = "entry"
    /\ stdout' = stdout (+) One(PrintLine(e))
    /\ invs' = Replace(invs, e,
                 IF HasText(e.data)
                 THEN [e EXCEPT !.pc = "L22", !.transcript_text = e.data["data"]["text"]]
                 ELSE [e EXCEPT !.pc = "KeyError"])
    /\ UNCHANGED <<pc, client, handlers, startCalls, serverRunning, cards>>

\* variant: title and body passed in the wrong order
CardOfSwapped(e) ==
    [user_id |-> e.data["user_id"], title |-> e.transcript_text, body |-> Title,
     src |-> e.data]

\* the arguments of send_reference_card at line 22
CardOf(e) ==
    [user_id |-> e.data["user_id"], title |-> Title, body |-> e.transcript_text,
     src |-> e.data]

\* variant: data.get('user_id') instead of data['user_id']
OnTranscriptSendDefaultUser(e) ==
    /\ BagIn(e, invs)
    /\ e.handler = "on_transcript"
    /\ e.pc = "L22"
    /\ cards' = cards (+) One([user_id |-> IF HasKey(e.data, "user_id")
                                            THEN e.data["user_id"] ELSE None,
                                title |-> Title, body |-> e.transcript_text,
                                src |-> e.data])
    /\ invs' = Replace(invs, e, [e EXCEPT !.pc = "await", !.send = "pending"])
    /\ UNCHANGED <<pc, client, handlers, startCalls, serverRunning, stdout>>

\* on_transcript, line 22 up to the await:
\* self.client.send_reference_card(data['user_id'], "ExampleTitle", transcript_text)
OnTranscriptSend(e) ==
    /\ BagIn(e, invs)
    /\ e.handler = "on_transcript"
    /\ e.pc = "L22"
    /\ IF HasKey(e.data, "user_id")
       THEN /\ cards' = cards (+) One(CardOf(e))
            /\ invs' = Replace(invs, e, [e EXCEPT !.pc = "await", !.send = "pending"])
       ELSE /\ cards' = cards
            /\ invs' = Replace(invs, e, [e EXCEPT !.pc = "KeyError"])
    /\ UNCHANGED <<pc, client, handlers, startCalls, serverRunning, stdout>>

\* on_transcript, line 22 after the call: the awaited send ends and the
\* coroutine resumes in the same step, to return or to propagate the error
OnTranscriptResume(e, outcome) ==
    /\ BagIn(e, invs)
    /\ e.handler = "on_transcript"
    /\ e.pc = "await"
    /\ e.send = "pending"
    /\ invs' = Replace(invs, e,
                 [e EXCEPT !.send = outcome,
                           !.pc = IF outcome = "delivered" THEN "returned" ELSE "SendError"])
    /\ UNCHANGED <<pc, client, handlers, startCalls, serverRunning, cards, stdout>>

\* a handler whose body is the print alone
PrintOnly(e, h) ==
    /\ BagIn(e, invs)
    /\ e.handler = h
    /\ e.pc = "entry"
    /\ stdout' = stdout (+) One(PrintLine(e))
    /\ invs' = Replace(invs, e, [e EXCEPT !.pc = "returned"])
    /\ UNCHANGED <<pc, client, handlers, startCalls, serverRunning, cards>>

\* variant: on_location carries a copy of on_transcript's send
OnLocationSends(e) ==
    /\ BagIn(e, invs)
    /\ e.handler = "on_location"
    /\ e.pc = "entry"
    /\ stdout' = stdout (+) One(PrintLine(e))
    /\ IF WellFormed(e.data)
       THEN /\ cards' = cards (+) One([user_id |-> e.data["user_id"], title |-> Title,
                                        body |-> e.data["data"]["text"], src |-> e.data])
            /\ invs' = Replace(invs, e, [e EXCEPT !.pc = "returned"])
       ELSE /\ cards' = cards
            /\ invs' = Replace(invs, e, [e EXCEPT !.pc = "KeyError"])
    /\ UNCHANGED <<pc, client, handlers, startCalls, serverRunning>>

OnLocation(e) == PrintOnly(e, "on_location")

OnCamera(e) == PrintOnly(e, "on_camera")

OnOther(e) == PrintOnly(e, "on_other")

Handlers ==
    \E e \in BagToSet(invs) :
        \/ OnTranscriptReadText(e)
        \/ OnTranscriptSend(e)
        \/ \E o \in SendOutcomes : OnTranscriptResume(e, o)
        \/ OnLocation(e)
        \/ OnCamera(e)
        \/ OnOther(e)

Server == \E t \in EventTypes : \E d \in PayloadsOf(t) : Deliver(t, d)

Next == Main \/ Handlers \/ Server

Spec == Init /\ [][Next]_vars

\* main() is a task of the running event loop: it is scheduled whenever it can run
FairSpec == Spec /\ WF_vars(Main)

\* ---------------------------------------------------------------- typing
MainPcs == {"L38", "L14", "L15", "L16", "L17", "L39", "L35", "L41", "L42", "returned"}
HandlerPcs == {"entry", "L22", "await", "returned", "KeyError", "SendError"}

TypeOK ==
    /\ pc \in MainPcs
    /\ client \in {NoClient, ClientConfig}
    /\ handlers \in [EventTypes -> HandlerNames \cup {None}]
    /\ startCalls \in Nat
    /\ serverRunning \in BOOLEAN
    /\ \A e \in BagToSet(invs) :
          /\ e.type \in EventTypes
          /\ e.handler \in HandlerNames
          /\ e.data \in PayloadsOf(e.type)
          /\ e.pc \in HandlerPcs
          /\ e.transcript_text \in Texts \cup {Unset}
          /\ e.send \in {"none", "pending", "delivered", "failed"}

\* ------------------------------------------------------------ vocabulary
\* main() is inside its `while True` loop
IdlePcs == {"L41", "L42"}

\* ExampleApp() has returned
Constructed == pc \notin {"L38", "L14", "L15", "L16", "L17"}

AllRegistered == \A t \in EventTypes : handlers[t] # None

\* handler positions at or after the send_reference_card call
PastSendPcs == {"await", "returned", "SendError"}

\* handler positions at which the coroutine is over
FinalPcs == {"returned", "KeyError", "SendError"}

\* the card a transcript event with payload d calls for
CardFor(d) ==
    [user_id |-> d["user_id"], title |-> Title, body |-> d["data"]["text"], src |-> d]

\* number of invocations in the set es of distinct invocation states
Copies(es) == BagCardinality([e \in es |-> invs[e]])

\* number of cards issued by events with payload d
CardsFrom(d) ==
    LET cs == {c \in BagToSet(cards) : c.src = d}
    IN  BagCardinality([c \in cs |-> cards[c]])

\* some invocation in a state satisfying P took a step
Stepped(e) == BagIn(e, invs) /\ CopiesIn(e, invs') < CopiesIn(e, invs)

\* ------------------------------------------------------------------ C1
\* C1: main() constructs the AppClient, then registers the transcript,
\* location, camera and other handlers in that order, then calls
\* client.start(), then enters the idle loop; whenever the server has been
\* started all four handlers are registered, and client.start() is called
\* exactly once.
C1_StartupOrder ==
    /\ (\E t \in EventTypes : handlers[t] # None) => client = ClientConfig
    /\ handlers["location"] # None => handlers["transcript"] # None
    /\ handlers["camera"] # None => handlers["location"] # None
    /\ handlers["other"] # None => handlers["camera"] # None
    /\ (startCalls > 0 \/ serverRunning) => AllRegistered
    /\ serverRunning <=> startCalls > 0
    /\ startCalls <= 1
    /\ pc \in IdlePcs => startCalls = 1
    /\ pc \in {"L38", "L14", "L15", "L16", "L17", "L39"} => startCalls = 0

C1_Witness == pc \in IdlePcs /\ startCalls = 1 /\ serverRunning /\ AllRegistered

\* ------------------------------------------------------------------ C2
\* C2: once main() is in its loop it stays there: every step from the loop
\* test or the sleep leads to the loop test or the sleep, and main() never
\* returns.
C2_IdlesForever ==
    /\ [](pc # "returned")
    /\ [][(pc \in IdlePcs) => (pc' \in IdlePcs)]_vars

C2_Witness == pc = "L42" /\ serverRunning /\ invs # EmptyBag

\* ------------------------------------------------------------------ C3
\* C3: the call of example_app.start() returns: from the call main() always
\* gets to its idle loop, and while the server runs main() has not returned,
\* so the event loop is alive.
C3_StartReturns ==
    /\ [](serverRunning => pc # "returned")
    /\ (pc \in {"L39", "L35"}) ~> (pc \in IdlePcs)

C3_Witness ==
    /\ pc = "L41"
    /\ serverRunning
    /\ \E e \in BagToSet(invs) : e.pc = "returned" /\ e.type = "transcript"

\* ------------------------------------------------------------------ C4
\* C4: once ExampleApp is constructed every event type has its matching
\* handler registered, no handler serves two event types, and no
\* registration changes afterwards.
C4_Registrations ==
    /\ [](Constructed =>
            /\ handlers = Expected
            /\ \A s, t \in EventTypes : s # t => handlers[s] # handlers[t])
    /\ [][Constructed => (handlers' = handlers)]_vars

C4_Witness ==
    /\ Constructed
    /\ handlers = Expected
    /\ Copies({e \in BagToSet(invs) : e.pc \in FinalPcs}) >= 2

\* ------------------------------------------------------------------ C5
\* C5: a transcript event with data['data']['text'] and data['user_id'] that
\* on_transcript has got past its send has exactly one card, addressed to
\* its user_id, titled "ExampleTitle", with its text as body; and the
\* handler is over only when that send has finished.
C5_TranscriptCard ==
    \A e \in BagToSet(invs) :
        (e.handler = "on_transcript" /\ WellFormed(e.data)) =>
            /\ e.pc \in {"returned", "SendError"} => e.send \in {"delivered", "failed"}
            /\ e.pc = "returned" => e.send = "delivered"
            /\ e.pc \in PastSendPcs =>
                  /\ BagIn(CardFor(e.data), cards)
                  /\ \A c \in BagToSet(cards) : c.src = e.data => c = CardFor(e.data)
                  /\ CardsFrom(e.data) =
                        Copies({x \in BagToSet(invs) : x.data = e.data /\ x.pc \in PastSendPcs})
            /\ e.pc # "KeyError"

C5_Witness ==
    \E e \in BagToSet(invs) :
        /\ e.handler = "on_transcript"
        /\ WellFormed(e.data)
        /\ e.pc = "returned"
        /\ CardsFrom(e.data) = 1

\* ------------------------------------------------------------------ C6
\* C6: a step of a location, camera or other handler leaves the cards, the
\* client, its registrations and the server as they are, and no card ever
\* stems from such an event.
C6_PrintOnlyFrame ==
    /\ [](\A c \in BagToSet(cards) : c.src["type"] \notin OtherTypes)
    /\ [][(\E e \in BagToSet(invs) : e.type \in OtherTypes /\ Stepped(e))
            => UNCHANGED <<cards, client, handlers, startCalls, serverRunning, pc>>]_vars

C6_Witness ==
    \E e \in BagToSet(invs) :
        /\ e.type \in OtherTypes
        /\ WellFormed(e.data)
        /\ e.pc = "returned"
        /\ BagIn([handler |-> e.handler, data |-> e.data], stdout)

\* ------------------------------------------------------------------ C7
\* C7: a transcript event lacking 'data', the nested 'text' or 'user_id'
\* never gets to a send: its handler ends in a KeyError, no card stems from
\* it, and its steps leave the cards of the other events as they are.
C7_MalformedFails ==
    /\ [](\A e \in BagToSet(invs) :
            (e.handler = "on_transcript" /\ ~WellFormed(e.data)) =>
                /\ e.send = "none"
                /\ e.pc \in {"entry", "L22", "KeyError"}
                /\ e.pc = "L22" => HasText(e.data)
                /\ CardsFrom(e.data) = 0)
    /\ [][(\E e \in BagToSet(invs) :
              e.handler = "on_transcript" /\ ~WellFormed(e.data) /\ Stepped(e))
            => (cards' = cards)]_vars

C7_Witness ==
    /\ \E e \in BagToSet(invs) :
          /\ e.handler = "on_transcript"
          /\ HasText(e.data)
          /\ ~HasKey(e.data, "user_id")
          /\ e.pc = "KeyError"
    /\ BagCardinality(cards) = 1

\* ------------------------------------------------------------------ C8
\* C8: whatever the interleaving, the cards issued are exactly the cards of
\* the transcript events whose handler is at or past its send, one each,
\* every card carrying the user_id and the text of the event it stems from;
\* every transcript handler that returned had a well-formed payload.
C8_NoCrossTalk ==
    LET senders == {e \in BagToSet(invs) : e.type = "transcript" /\ e.pc \in PastSendPcs}
        ds == {e.data : e \in senders}
    IN  /\ \A c \in BagToSet(cards) :
              /\ WellFormed(c.src)
              /\ c.user_id = c.src["user_id"]
              /\ c.body = c.src["data"]["text"]
              /\ c.title = Title
        /\ {c.src : c \in BagToSet(cards)} = ds
        /\ \A d \in ds : CardsFrom(d) = Copies({e \in senders : e.data = d})
        /\ BagCardinality(cards) = Copies(senders)
        /\ \A e \in BagToSet(invs) :
              (e.type = "transcript" /\ e.pc = "returned") => e \in senders /\ WellFormed(e.data)

C8_Witness ==
    \E e1, e2, e3 \in BagToSet(invs) :
        /\ e1.pc = "await" /\ e2.pc = "await"
        /\ WellFormed(e1.data) /\ WellFormed(e2.data)
        /\ e1.data["user_id"] # e2.data["user_id"]
        /\ e1.data["data"]["text"] # e2.data["data"]["text"]
        /\ e3.type \in OtherTypes
        /\ BagCardinality(cards) = 2

====
